---- MODULE Spec2Model ----
(***************************************************************************)
(* A model of finagg's Policy.sample (src/src/finagg/cuda/algo/policy.py). *)
(*                                                                         *)
(* The state is the process-wide gradient-tracking mode of torch, the      *)
(* tensor dicts that are alive (the callers' batches and the container a   *)
(* call creates), the policy's model (the number of forward passes it has  *)
(* made and what its value function reflects), the number of distribution  *)
(* instances built so far, and one frame per calling thread: the           *)
(* arguments and locals of its sample call and the line it has reached.    *)
(* A frame also remembers what the caller saw right before the call.       *)
(***************************************************************************)
EXTENDS Integers, Sequences, FiniteSets, TLC

\* Policy.sample
VARIABLES gradEnabled, heap, model, distCount, calls, frame
\* finagg.sec.api: the lookup caches, the environment, what the SEC serves,
\* the requests sent, the calls made and the last call with its outcome
VARIABLES secCache, secEnv, secListing, secSent, secCalls, secLast

\* shark.yfinance.scrape: the prices table, whether its schema has a primary
\* key, the runs made and the last run with its outcome
VARIABLES yfPrices, yfKeyed, yfRuns, yfLast

\* the feature stores (finagg.mixed.features, finagg.sec.feat): which store
\* the calls address, its rows, the calls made and the last call with its outcome
VARIABLES stStore, stRows, stOps, stLast

\* finagg.yfinance.store: the rows of the daily_features table, what
\* functools.cache remembers of the two ticker queries, the steps made and
\* the last query with its outcome
VARIABLES tsTable, tsMemo, tsOps, tsLast

\* finagg.mixed.features.from_sql: the quarterly rows each SEC database
\* holds, the calls made and the last call with the reads it made
VARIABLES mxQuarterly, mxOps, mxLast

policyVars == <<gradEnabled, heap, model, distCount, calls, frame>>
secVars == <<secCache, secEnv, secListing, secSent, secCalls, secLast>>

yfVars == <<yfPrices, yfKeyed, yfRuns, yfLast>>
stVars == <<stStore, stRows, stOps, stLast>>
mxVars == <<mxQuarterly, mxOps, mxLast>>
tsVars == <<tsTable, tsMemo, tsOps, tsLast>>

\* what a step of one part of the repository leaves alone
outsidePolicy == <<secVars, yfVars, stVars, tsVars, mxVars>>
outsideSec == <<policyVars, yfVars, stVars, tsVars, mxVars>>
outsideYf == <<policyVars, secVars, stVars, tsVars, mxVars>>
outsideSt == <<policyVars, secVars, yfVars, tsVars, mxVars>>
outsideTs == <<policyVars, secVars, yfVars, stVars, mxVars>>
outsideMx == <<policyVars, secVars, yfVars, stVars, tsVars>>

(* ------------------------------ bounds -------------------------------- *)

\* sample calls made in one behaviour
MaxCalls == 2
\* outcomes of one stochastic draw
NumDraws == 2

\* the threads that may call sample; the contract is single-threaded use,
\* so Spec lets MainThread alone call
Threads == {"t1", "t2"}
MainThread == "t1"
Devices == {"cpu", "cuda"}
\* where the caller's batch lives
CallerDevice == "cpu"
Kinds == {"last", "all"}
\* the [B, T] shapes of a caller's batch
Shapes == {<<2, 1>>, <<2, 2>>}
\* the tensor dicts: the caller's batch and the container a call creates
CallerBatch == "batch"
NewContainer == "new"
\* the container a call of the second thread creates
OtherContainer == "new2"
Ids == {CallerBatch, NewContainer, OtherContainer}
\* each call creates a container of its own
ContainerOf(t) == IF t = MainThread THEN NewContainer ELSE OtherContainer

(* --------------------------- batch field keys ------------------------- *)

Batch_OBS == "obs"
Batch_FEATURES == "features"
Batch_ACTIONS == "actions"
Batch_LOGP == "logp"
Batch_VALUES == "values"
Keys == {Batch_OBS, Batch_FEATURES, Batch_ACTIONS, Batch_LOGP, Batch_VALUES}

(* ------------------------------ values -------------------------------- *)

\* the absent tensor
NoVal == [k |-> "none"]

\* a tensor dict: its fields, its batch size and its device
NoFields == [key \in Keys |-> NoVal]
NoTD == [f |-> NoFields, bsz |-> 0, dev |-> "none"]
NoDist == [id |-> 0, features |-> NoVal]

Has(td, key) == td.f[key] # NoVal
KeysOf(td) == {key \in Keys : Has(td, key)}

\* a caller's batch: observations of shape[1] rows and shape[2] time steps
BatchOf(shape, dev) ==
    [f |-> [NoFields EXCEPT ![Batch_OBS] = [k |-> "obs", steps |-> shape[2]]],
     bsz |-> shape[1], dev |-> dev]

(* --------------------------- collaborators ---------------------------- *)

\* Model.apply_view_requirements(batch, kind): the preprocessed batch. "last"
\* keeps the final step of every row, "all" flattens rows and steps into one
\* dimension. Where the result lives is the model's choice.
ApplyViewRequirements(td, kind, dev) ==
    [f |-> [NoFields EXCEPT ![Batch_OBS] = [k |-> "view", kind |-> kind, of |-> td.f[Batch_OBS]]],
     bsz |-> IF kind = "last" THEN td.bsz ELSE td.bsz * td.f[Batch_OBS].steps,
     dev |-> dev]

\* model_cls(observation_spec, feature_spec, action_spec, config=config): the
\* n-th model constructed, which has made no forward pass yet
NewModel(n, args) == [id |-> n, args |-> args, fwd |-> 0, lead |-> 0]

\* Model.__call__(in_batch): the features, one row per row of in_batch
ModelForward(in_batch) ==
    [k |-> "feat", of |-> in_batch.f[Batch_OBS], lead |-> in_batch.bsz]

\* the model after one more forward pass on in_batch
ModelAfterForward(m, in_batch) ==
    [m EXCEPT !.fwd = m.fwd + 1, !.lead = in_batch.bsz]

\* Model.value_function(): the estimate of the most recent forward pass
ValueFunction(m) == [k |-> "value", fwd |-> m.fwd, lead |-> m.lead]

\* dist_cls(features, model): instance number n
NewDist(n, features) == [id |-> n, features |-> features]

\* Distribution.deterministic_sample() and Distribution.sample()
DeterministicSample(d) ==
    [k |-> "act", of |-> d.features, draw |-> 0, lead |-> d.features.lead]
StochasticSample(d, r) ==
    [k |-> "act", of |-> d.features, draw |-> r, lead |-> d.features.lead]

\* Distribution.logp(action)
Logp(d, a) == [k |-> "logp", dist |-> d.id, of |-> a, lead |-> a.lead]

\* any tensor is accepted
CanSetAlways(td, v) == TRUE

\* TensorDict.__setitem__ accepts a tensor whose leading dimension is the
\* container's batch size
CanSet(td, v) == v.lead = td.bsz
SetItem(td, key, v) == [td EXCEPT !.f[key] = v]

(* ------------------------- finagg.sec.api: values --------------------- *)

\* Python's None and a str, the latter a sequence of characters
PyNone == [kind |-> "none", s |-> <<>>]
Str(chars) == [kind |-> "str", s |-> chars]
\* bool(x) of None or a str
Truthy(x) == x.kind = "str" /\ x.s # <<>>

\* the lookup caches before the first fetch (lines 323, 326)
EmptyMap == [key \in {} |-> PyNone]
EmptyCache == [t2c |-> EmptyMap, c2t |-> EmptyMap]
\* no call made yet
NoSecCall ==
    [op |-> "none", cik |-> PyNone, ticker |-> PyNone, user_agent |-> PyNone,
     err |-> "none", val |-> PyNone, reqs |-> <<>>, trace |-> <<>>,
     url |-> [api |-> "none", cik |-> <<>>], cache0 |-> EmptyCache, sent0 |-> 0,
     fetches |-> 0]

\* finagg.sec.api at rest
SecQuiet ==
    /\ secCache = EmptyCache
    /\ secEnv = PyNone
    /\ secListing = <<>>
    /\ secSent = 0
    /\ secCalls = 0
    /\ secLast = NoSecCall

(* ----------------------- shark.yfinance.scrape: values ---------------- *)

\* an empty dict
EmptyDict == [key \in {} |-> 0]
\* no run made yet
NoYfRun ==
    [tickers |-> [kind |-> "list", items |-> <<>>], outcome |-> "none",
     result |-> EmptyDict, fetched |-> <<>>, inserted |-> 0, prices0 |-> <<>>]

\* shark.yfinance at rest
YfQuiet ==
    /\ yfPrices = <<>>
    /\ yfKeyed = TRUE
    /\ yfRuns = 0
    /\ yfLast = NoYfRun

(* -------------------------- feature stores: values -------------------- *)

\* the call before the last, as far as the claims need it
NoPrevStoreCall ==
    [op |-> "none", ticker |-> "", df |-> <<>>, err |-> "none", fresh |-> FALSE]
\* no call made yet
NoStoreCall ==
    [op |-> "none", ticker |-> "", df |-> <<>>, start |-> 0, end |-> 0,
     err |-> "none", count |-> 0, frame |-> <<>>, rows0 |-> <<>>, fresh |-> FALSE,
     prev |-> NoPrevStoreCall]

\* the feature stores at rest
StQuiet ==
    /\ stStore = "fundamental"
    /\ stRows = <<>>
    /\ stOps = 0
    /\ stLast = NoStoreCall

(* ------------------------ finagg.yfinance.store: values ---------------- *)

\* no query has been made yet
NoTsCall == [op |-> "none", arg |-> 0, err |-> "", val |-> {}, hit |-> FALSE]

\* the part is not running: an empty table, nothing remembered, no step made
TsQuiet ==
    /\ tsTable = {}
    /\ tsMemo = {}
    /\ tsOps = 0
    /\ tsLast = NoTsCall

(* ------------------- finagg.mixed.features.from_sql: values ------------ *)

\* the engines from_sql falls back on, and engines a caller passes instead
DefaultSecEngine == "sec.sql.engine"
DefaultYfEngine == "yfinance.sql.engine"
SecEngines == {DefaultSecEngine, "custom_sec"}
YfEngines == {DefaultYfEngine, "custom_yf"}

MxTickers == {"AAPL", "MSFT"}
\* the dates of quarterly rows; NoDate stands for start=None
MxDates == {1, 2}
NoDate == 0

\* from_sql has not been called yet
NoMxCall ==
    [ticker |-> "", start |-> NoDate, sec_engine |-> "", yf_engine |-> "",
     err |-> "", reads |-> <<>>]

\* the part is not running: empty databases, no call made
MxQuiet ==
    /\ mxQuarterly = [e \in SecEngines |-> [t \in MxTickers |-> {}]]
    /\ mxOps = 0
    /\ mxLast = NoMxCall

(* ------------------------------ frames -------------------------------- *)

\* the arguments and locals of one sample call, the line it has reached
\* (pc) and, for a call that raised, the operation that raised (failed)
IdleFrame ==
    [pc |-> "idle", batch |-> CallerBatch, kind |-> "last", deterministic |-> FALSE,
     inplace |-> FALSE, requires_grad |-> FALSE, return_logp |-> FALSE,
     return_values |-> FALSE, in_batch |-> NoTD, prev |-> FALSE,
     features |-> NoVal, dist |-> NoDist, actions |-> NoVal, out |-> CallerBatch,
     failed |-> "none",
     \* what the caller saw right before the call
     mode0 |-> FALSE, batch0 |-> NoTD, fwd0 |-> 0, dist0 |-> 0, live0 |-> {},
     \* the distribution instance the action was drawn from
     drawnFrom |-> 0,
     \* the model the distribution was given
     distModel |-> 0,
     \* the collaborator operations the call has made, in order
     ops |-> <<>>,
     \* the container the call creates when it is not in place
     container |-> NewContainer,
     \* the position of the call among the calls made, and whether another
     \* call was under way when it began
     seq |-> 0, overlap |-> FALSE]

\* the operations of the model and of the distribution that sample calls
CollaboratorOps ==
    {"apply_view_requirements", "forward", "dist", "deterministic_sample", "sample",
     "logp", "value_function"}

\* f after one more call of collaborator operation op
Called(f, op) == [f EXCEPT !.ops = Append(@, op)]

\* the exception is caught and sample returns as if nothing had happened
RaiseSwallowed(t, where) ==
    frame' = [frame EXCEPT ![t].pc = "returned", ![t].failed = where,
                           ![t].ops = IF where \in CollaboratorOps THEN Append(@, where) ELSE @]

\* operation `where` was called and raised: the exception leaves sample at
\* once, no line after the raising one runs
Raise(t, where) ==
    frame' = [frame EXCEPT ![t].pc = "raised", ![t].failed = where,
                           ![t].ops = IF where \in CollaboratorOps THEN Append(@, where) ELSE @]

Goto(t, f, pc) == frame' = [frame EXCEPT ![t] = [f EXCEPT !.pc = pc]]

(* ------------------------------- Init --------------------------------- *)

\* the arguments Policy.__init__ hands to model_cls
ModelArgs == <<"observation_spec", "feature_spec", "action_spec", "model_config">>

\* the constructor builds a model, throws it away and builds another
PolicyModelRebuilt == NewModel(2, ModelArgs)

\* lines 54-56: self.model = model_cls(observation_spec, feature_spec,
\* action_spec, config=model_config), the first model constructed
PolicyModel == NewModel(1, ModelArgs)

Init ==
    /\ gradEnabled \in BOOLEAN
    /\ \E shape \in Shapes :
          heap = [id \in Ids |-> IF id = CallerBatch THEN BatchOf(shape, CallerDevice) ELSE NoTD]
    /\ model = PolicyModel
    /\ distCount = 0
    /\ calls = 0
    /\ frame = [t \in Threads |-> IdleFrame]
    /\ SecQuiet
    /\ YfQuiet
    /\ StQuiet
    /\ TsQuiet
    /\ MxQuiet

(* --------------------------- Policy.sample ---------------------------- *)

\* line 124: what the forward pass is given
ForwardInput(f) == f.in_batch

\* line 125: the features and the model dist_cls is given
DistFeatures(f) == f.features
DistModel(m) == m.id

\* the draw is always stochastic
DrawMethodAlwaysSample(f) == "sample"

\* line 126: the method of the distribution that draws the action
DrawMethod(f) == IF f.deterministic THEN "deterministic_sample" ELSE "sample"

\* the action is drawn stochastically whatever `deterministic` says
DrawnActionSampled(f, r) == StochasticSample(f.dist, r)

\* line 126: deterministic_sample() if deterministic else sample()
DrawnAction(f, r) ==
    IF DrawMethod(f) = "deterministic_sample"
    THEN DeterministicSample(f.dist) ELSE StochasticSample(f.dist, r)

\* the outputs always go to the caller's batch
OutOfAlwaysBatch(f) == f.batch
\* the outputs always go to a new container
OutOfAlwaysNew(f) == NewContainer

\* lines 129-131: the container the outputs go to
OutOf(f) == IF f.inplace THEN f.batch ELSE f.container

\* the new container starts as a copy of the batch's fields
EmptyOutClone(in_batch, batch) == [batch EXCEPT !.bsz = in_batch.bsz]

\* line 132: TensorDict({}, batch_size=in_batch.batch_size, device=batch.device)
EmptyOut(in_batch, batch) ==
    [f |-> NoFields, bsz |-> in_batch.bsz, dev |-> batch.dev]

\* the features are stored under Batch.ACTIONS too
StoredActionsAreFeatures(f) == f.features

\* lines 134-135: what is stored under Batch.FEATURES and Batch.ACTIONS
StoredFeatures(f) == f.features
StoredActions(f) == f.actions

\* the log-probability is stored whatever return_logp says
WantsLogpAlways(f) == TRUE
\* the log-probability is asked of a second distribution built from the features
StoredLogpSecondDist(f) == Logp(NewDist(f.dist.id + 1, f.features), f.actions)

\* lines 136-137: whether a log-probability is stored, and which
WantsLogp(f) == f.return_logp
StoredLogp(f) == Logp(f.dist, f.actions)

\* the value estimate is the one the model held when the call began
StoredValuesStale(f, m) == ValueFunction([m EXCEPT !.fwd = f.fwd0])

\* lines 138-139: whether a value estimate is stored, and which
WantsValues(f) == f.return_values
StoredValues(f, m) == ValueFunction(m)

\* the mode is set to requires_grad again instead of the snapshot
GradToRestoreIsRequested(f) == f.requires_grad

\* line 141: the mode torch.set_grad_enabled is given at the end
GradToRestore(f) == f.prev

\* out[key] = v, which raises when TensorDict refuses v
Store(t, key, v, pc) ==
    IF CanSet(heap[frame[t].out], v)
    THEN /\ heap' = [heap EXCEPT ![frame[t].out] = SetItem(@, key, v)]
         /\ Goto(t, frame[t], pc)
    ELSE /\ Raise(t, "setitem")
         /\ UNCHANGED heap

\* out[key] = v with v the result of collaborator operation op
StoreResult(t, key, op, v, pc) ==
    IF CanSet(heap[frame[t].out], v)
    THEN /\ heap' = [heap EXCEPT ![frame[t].out] = SetItem(@, key, v)]
         /\ Goto(t, Called(frame[t], op), pc)
    ELSE /\ frame' = [frame EXCEPT ![t] =
                [Called(frame[t], op) EXCEPT !.pc = "raised", !.failed = "setitem"]]
         /\ UNCHANGED heap

\* the call of frame f has begun and has neither returned nor raised
InCall(f) == f.pc \notin {"idle", "returned", "raised"}

\* a caller enters sample with its batch and some flags
Call(t) ==
    /\ frame[t].pc = "idle"
    /\ UNCHANGED outsidePolicy
    /\ calls < MaxCalls
    /\ \E kind \in Kinds, det \in BOOLEAN, inpl \in BOOLEAN, rg \in BOOLEAN,
          rl \in BOOLEAN, rv \in BOOLEAN :
          frame' = [frame EXCEPT ![t] =
              [IdleFrame EXCEPT !.pc = "view", !.batch = CallerBatch, !.kind = kind,
                  !.deterministic = det, !.inplace = inpl, !.requires_grad = rg,
                  !.return_logp = rl, !.return_values = rv,
                  !.mode0 = gradEnabled, !.batch0 = heap[CallerBatch],
                  !.fwd0 = model.fwd, !.dist0 = distCount,
                  !.live0 = {id \in Ids : heap[id] # NoTD},
                  !.container = ContainerOf(t), !.seq = calls + 1,
                  !.overlap = \E u \in Threads \ {t} : InCall(frame[u])]]
    /\ calls' = calls + 1
    /\ UNCHANGED <<gradEnabled, heap, model, distCount>>

\* the batch is always preprocessed for the last step
ViewKindAlwaysLast(f) == "last"

\* line 116: the kind apply_view_requirements is given
ViewKind(f) == f.kind

\* the mode is already switched to requires_grad while the batch is preprocessed
ModeAfterViewRequested(mode, f) == f.requires_grad

\* line 116: the mode after apply_view_requirements, which comes before the
\* lines that read and write the mode
ModeAfterView(mode, f) == mode

\* line 116: in_batch = self.model.apply_view_requirements(batch, kind=kind)
Preprocess(t) ==
    /\ frame[t].pc = "view"
    /\ UNCHANGED outsidePolicy
    /\ \/ \E dev \in Devices :
             Goto(t, [Called(frame[t], "apply_view_requirements") EXCEPT !.in_batch =
                        ApplyViewRequirements(heap[frame[t].batch], ViewKind(frame[t]), dev)],
                  "is_grad")
       \/ Raise(t, "apply_view_requirements")
    /\ gradEnabled' = ModeAfterView(gradEnabled, frame[t])
    /\ UNCHANGED <<heap, model, distCount, calls>>

\* line 120: prev = torch.is_grad_enabled()
SnapshotGrad(t) ==
    /\ frame[t].pc = "is_grad"
    /\ UNCHANGED outsidePolicy
    /\ Goto(t, [frame[t] EXCEPT !.prev = gradEnabled], "set_grad")
    /\ UNCHANGED <<gradEnabled, heap, model, distCount, calls>>

\* the mode is switched on whatever requires_grad says
GradToSetAlwaysOn(f) == TRUE

\* line 121: the mode torch.set_grad_enabled is given before the forward pass
GradToSet(f) == f.requires_grad

\* line 121: torch.set_grad_enabled(requires_grad)
SetGrad(t) ==
    /\ frame[t].pc = "set_grad"
    /\ UNCHANGED outsidePolicy
    /\ gradEnabled' = GradToSet(frame[t])
    /\ Goto(t, frame[t], "forward")
    /\ UNCHANGED <<heap, model, distCount, calls>>

\* line 124: features = self.model(in_batch)
Forward(t) ==
    /\ frame[t].pc = "forward"
    /\ UNCHANGED outsidePolicy
    /\ \/ /\ Goto(t, [Called(frame[t], "forward") EXCEPT
                        !.features = ModelForward(ForwardInput(frame[t]))], "dist")
          /\ model' = ModelAfterForward(model, ForwardInput(frame[t]))
       \/ /\ Raise(t, "forward")
          /\ UNCHANGED model
    /\ UNCHANGED <<gradEnabled, heap, distCount, calls>>

\* line 125: dist = self.dist_cls(features, self.model)
MakeDist(t) ==
    /\ frame[t].pc = "dist"
    /\ UNCHANGED outsidePolicy
    /\ \/ /\ Goto(t, [Called(frame[t], "dist") EXCEPT
                        !.dist = NewDist(distCount + 1, DistFeatures(frame[t])),
                        !.distModel = DistModel(model)], "draw")
          /\ distCount' = distCount + 1
       \/ /\ Raise(t, "dist")
          /\ UNCHANGED distCount
    /\ UNCHANGED <<gradEnabled, heap, model, calls>>

\* line 126: actions = dist.deterministic_sample() if deterministic else dist.sample()
Draw(t) ==
    /\ frame[t].pc = "draw"
    /\ UNCHANGED outsidePolicy
    /\ \/ \E r \in 1..NumDraws :
             Goto(t, [Called(frame[t], DrawMethod(frame[t])) EXCEPT
                        !.actions = DrawnAction(frame[t], r),
                        !.drawnFrom = frame[t].dist.id], "out")
       \/ Raise(t, DrawMethod(frame[t]))
    /\ UNCHANGED <<gradEnabled, heap, model, distCount, calls>>

\* lines 129-133: out = batch if inplace else TensorDict({}, ...)
SelectOut(t) ==
    /\ frame[t].pc = "out"
    /\ UNCHANGED outsidePolicy
    /\ LET o == OutOf(frame[t]) IN
          /\ heap' = IF o = frame[t].batch THEN heap
                     ELSE [heap EXCEPT ![o] = EmptyOut(frame[t].in_batch, heap[frame[t].batch])]
          /\ Goto(t, [frame[t] EXCEPT !.out = o], "store_features")
    /\ UNCHANGED <<gradEnabled, model, distCount, calls>>

\* line 134: out[Batch.FEATURES.value] = features
StoreFeatures(t) ==
    /\ frame[t].pc = "store_features"
    /\ UNCHANGED outsidePolicy
    /\ Store(t, Batch_FEATURES, StoredFeatures(frame[t]), "store_actions")
    /\ UNCHANGED <<gradEnabled, model, distCount, calls>>

\* line 135: out[Batch.ACTIONS.value] = actions
StoreActions(t) ==
    /\ frame[t].pc = "store_actions"
    /\ UNCHANGED outsidePolicy
    /\ Store(t, Batch_ACTIONS, StoredActions(frame[t]), "store_logp")
    /\ UNCHANGED <<gradEnabled, model, distCount, calls>>

\* lines 136-137: if return_logp: out[Batch.LOGP.value] = dist.logp(actions)
StoreLogp(t) ==
    /\ frame[t].pc = "store_logp"
    /\ UNCHANGED outsidePolicy
    /\ \/ /\ ~WantsLogp(frame[t])
          /\ Goto(t, frame[t], "store_values")
          /\ UNCHANGED heap
       \/ /\ WantsLogp(frame[t])
          /\ StoreResult(t, Batch_LOGP, "logp", StoredLogp(frame[t]), "store_values")
       \/ /\ WantsLogp(frame[t])
          /\ Raise(t, "logp")
          /\ UNCHANGED heap
    /\ UNCHANGED <<gradEnabled, model, distCount, calls>>

\* lines 138-139: if return_values: out[Batch.VALUES.value] = self.model.value_function()
StoreValues(t) ==
    /\ frame[t].pc = "store_values"
    /\ UNCHANGED outsidePolicy
    /\ \/ /\ ~WantsValues(frame[t])
          /\ Goto(t, frame[t], "restore")
          /\ UNCHANGED heap
       \/ /\ WantsValues(frame[t])
          /\ StoreResult(t, Batch_VALUES, "value_function", StoredValues(frame[t], model), "restore")
       \/ /\ WantsValues(frame[t])
          /\ Raise(t, "value_function")
          /\ UNCHANGED heap
    /\ UNCHANGED <<gradEnabled, model, distCount, calls>>

\* line 141: torch.set_grad_enabled(prev)
RestoreGrad(t) ==
    /\ frame[t].pc = "restore"
    /\ UNCHANGED outsidePolicy
    /\ gradEnabled' = GradToRestore(frame[t])
    /\ Goto(t, frame[t], "return")
    /\ UNCHANGED <<heap, model, distCount, calls>>

\* line 142: return out
Return(t) ==
    /\ frame[t].pc = "return"
    /\ UNCHANGED outsidePolicy
    /\ Goto(t, frame[t], "returned")
    /\ UNCHANGED <<gradEnabled, heap, model, distCount, calls>>

\* the caller goes on: it keeps its batch and lets go of what sample gave it
Done(t) ==
    /\ frame[t].pc \in {"returned", "raised"}
    /\ UNCHANGED outsidePolicy
    /\ frame' = [frame EXCEPT ![t] = IdleFrame]
    /\ heap' = [heap EXCEPT ![frame[t].container] = NoTD]
    /\ UNCHANGED <<gradEnabled, model, distCount, calls>>

Step(t) ==
    \/ Call(t) \/ Preprocess(t) \/ SnapshotGrad(t) \/ SetGrad(t)
    \/ Forward(t) \/ MakeDist(t) \/ Draw(t) \/ SelectOut(t)
    \/ StoreFeatures(t) \/ StoreActions(t) \/ StoreLogp(t) \/ StoreValues(t)
    \/ RestoreGrad(t) \/ Return(t) \/ Done(t)

\* serialized use: one thread calls sample, one call after the other
Next == Step(MainThread)

vars == <<policyVars, secVars, yfVars, stVars, tsVars, mxVars>>

Spec == Init /\ [][Next]_vars

(* ------------------------------ claims -------------------------------- *)

Returned(t) == frame[t].pc = "returned"
Raised(t) == frame[t].pc = "raised"
\* the container the call returned
Result(t) == heap[frame[t].out]
\* the caller's input batch as it is now
Input(t) == heap[frame[t].batch]
\* the fields the flags of the call ask sample to produce
Produced(f) ==
    {Batch_FEATURES, Batch_ACTIONS}
        \cup (IF f.return_logp THEN {Batch_LOGP} ELSE {})
        \cup (IF f.return_values THEN {Batch_VALUES} ELSE {})

\* C1: after every sample call that returns normally, whatever the flags and
\* the mode in force before it, in any sequence of calls, the gradient-tracking
\* mode equals the mode observed immediately before that call.
C1_GradModeRestoredOnReturn ==
    \A t \in Threads : Returned(t) => gradEnabled = frame[t].mode0

\* a later call of a sequence has returned after asking for the other mode
C1_Witness ==
    \E t \in Threads :
        /\ Returned(t)
        /\ calls >= 2
        /\ frame[t].requires_grad # frame[t].mode0

\* C2: when the forward pass, the distribution construction, the draw, logp
\* or value_function raises inside sample, the gradient-tracking mode after
\* the exception equals the mode observed immediately before the call.
C2_GradModeRestoredOnRaise ==
    \A t \in Threads :
        (/\ Raised(t)
         /\ frame[t].failed \in {"forward", "dist", "deterministic_sample", "sample",
                                 "logp", "value_function"})
            => gradEnabled = frame[t].mode0

\* C3: after a sample call with inplace=false, returned or raised, the input
\* batch has exactly the fields it had before the call.
C3_InputFieldsUnchanged ==
    \A t \in Threads :
        ((Returned(t) \/ Raised(t)) /\ ~frame[t].inplace)
            => KeysOf(Input(t)) = KeysOf(frame[t].batch0)

\* a call with inplace=false has returned a container with all four outputs
C3_Witness ==
    \E t \in Threads :
        /\ Returned(t)
        /\ ~frame[t].inplace
        /\ KeysOf(Result(t)) = {Batch_FEATURES, Batch_ACTIONS, Batch_LOGP, Batch_VALUES}

\* C4: a sample call with inplace=true that returns, returns the input batch
\* itself, and that object holds features and actions, log-probability when
\* return_logp, values when return_values, and every field it held before.
C4_InplaceReturnsInput ==
    \A t \in Threads :
        (Returned(t) /\ frame[t].inplace)
            => /\ frame[t].out = frame[t].batch
               /\ Produced(frame[t]) \subseteq KeysOf(Input(t))
               /\ KeysOf(frame[t].batch0) \subseteq KeysOf(Input(t))

\* an in-place call with both optional outputs has returned
C4_Witness ==
    \E t \in Threads :
        /\ Returned(t)
        /\ frame[t].inplace
        /\ frame[t].return_logp
        /\ frame[t].return_values
        /\ Has(frame[t].batch0, Batch_OBS)

\* C5 as stated: after a sample call with return_logp=false, in place or not
\* and whatever fields the input batch held, the returned container has no
\* log-probability field.
C5_NoLogpField ==
    \A t \in Threads :
        (Returned(t) /\ ~frame[t].return_logp) => ~Has(Result(t), Batch_LOGP)

\* C5 amended: after a sample call with return_logp=false, the returned
\* container has a log-probability field only when inplace=true and the input
\* batch held one before the call, and then it is the one the batch held.
C5_NoLogpFieldWritten ==
    \A t \in Threads :
        (Returned(t) /\ ~frame[t].return_logp)
            => IF frame[t].inplace /\ Has(frame[t].batch0, Batch_LOGP)
               THEN Result(t).f[Batch_LOGP] = frame[t].batch0.f[Batch_LOGP]
               ELSE ~Has(Result(t), Batch_LOGP)

\* an in-place call with return_logp=false has returned on a batch that held
\* a log-probability of an earlier call
C5_Witness ==
    \E t \in Threads :
        /\ Returned(t)
        /\ ~frame[t].return_logp
        /\ frame[t].inplace
        /\ Has(frame[t].batch0, Batch_LOGP)

\* C6: after a sample call with return_logp=true, the returned container has
\* a log-probability field equal to logp(a) with a the action stored under
\* actions and drawn in this call, evaluated on the one distribution instance
\* this call built and drew a from.
C6_LogpOfStoredAction ==
    \A t \in Threads :
        (Returned(t) /\ frame[t].return_logp)
            => /\ Has(Result(t), Batch_LOGP)
               /\ Result(t).f[Batch_LOGP] = Logp(frame[t].dist, Result(t).f[Batch_ACTIONS])
               /\ Result(t).f[Batch_ACTIONS] = frame[t].actions
               /\ Result(t).f[Batch_LOGP].dist = frame[t].drawnFrom
               /\ frame[t].drawnFrom = frame[t].dist0 + 1

\* a stochastic call with return_logp=true has returned after an earlier call
\* had built a distribution of its own
C6_Witness ==
    \E t \in Threads :
        /\ Returned(t)
        /\ frame[t].return_logp
        /\ ~frame[t].deterministic
        /\ frame[t].dist0 >= 1

\* C7: a sample call makes exactly one forward pass whatever the flags, and
\* with return_values=true the values field is value_function() as it stands
\* after that pass and before any other.
C7_ValuesOfThisForward ==
    \A t \in Threads :
        Returned(t)
            => /\ model.fwd = frame[t].fwd0 + 1
               /\ frame[t].return_values
                    => Result(t).f[Batch_VALUES] =
                          ValueFunction(ModelAfterForward(
                              [fwd |-> frame[t].fwd0, lead |-> 0], frame[t].in_batch))

\* a call with return_values=true has returned after an earlier forward pass
C7_Witness ==
    \E t \in Threads :
        /\ Returned(t)
        /\ frame[t].return_values
        /\ frame[t].fwd0 >= 1

\* C8: every container sample returns holds, under Batch.FEATURES, the output
\* of this call's forward pass and, under Batch.ACTIONS, the action this call
\* drew from the distribution over those features.
C8_FeaturesAndActionsStored ==
    \A t \in Threads :
        Returned(t)
            => /\ Has(Result(t), Batch_FEATURES)
               /\ Has(Result(t), Batch_ACTIONS)
               /\ Result(t).f[Batch_FEATURES] = ModelForward(frame[t].in_batch)
               /\ Result(t).f[Batch_ACTIONS] = frame[t].actions
               /\ frame[t].actions.k = "act"
               /\ frame[t].actions.of = ModelForward(frame[t].in_batch)

\* a call without optional outputs has returned a new container
C8_Witness ==
    \E t \in Threads :
        /\ Returned(t)
        /\ ~frame[t].inplace
        /\ ~frame[t].return_logp
        /\ ~frame[t].return_values

\* C9: a sample call with inplace=false returns an object that did not exist
\* before the call and is not the input batch, with exactly the fields
\* features, actions, log-probability iff return_logp and values iff
\* return_values: no field of the input is copied into it.
C9_NewContainerOnlyOutputs ==
    \A t \in Threads :
        (Returned(t) /\ ~frame[t].inplace)
            => /\ frame[t].out # frame[t].batch
               /\ frame[t].out \notin frame[t].live0
               /\ KeysOf(Result(t)) = Produced(frame[t])

\* a call with inplace=false and only the log-probability asked has returned
C9_Witness ==
    \E t \in Threads :
        /\ Returned(t)
        /\ ~frame[t].inplace
        /\ frame[t].return_logp
        /\ ~frame[t].return_values
        /\ Has(Input(t), Batch_OBS)

\* C10: the container a sample call with inplace=false creates has the batch
\* size and the device of the preprocessed input, also when preprocessing
\* changed the batch size or the device.
C10_NewContainerLikePreprocessed ==
    \A t \in Threads :
        (Returned(t) /\ ~frame[t].inplace)
            => /\ Result(t).bsz = frame[t].in_batch.bsz
               /\ Result(t).dev = frame[t].in_batch.dev

\* the draws among the collaborator operations of a call
IsDraw(op) == op \in {"deterministic_sample", "sample"}
IsDistConstruction(op) == op = "dist"
Draws(f) == SelectSeq(f.ops, IsDraw)

\* C11: a sample call draws at most once, and once it holds an action that
\* action came from exactly one draw on the call's distribution:
\* deterministic_sample() and never sample() when deterministic=true, sample()
\* and never deterministic_sample() when deterministic=false.
C11_OneDrawByFlag ==
    \A t \in Threads :
        LET f == frame[t] IN
        /\ Len(Draws(f)) <= 1
        /\ f.actions # NoVal
            => /\ Draws(f) = << IF f.deterministic THEN "deterministic_sample" ELSE "sample" >>
               /\ f.drawnFrom = f.dist.id
               /\ IF f.deterministic
                  THEN f.actions = DeterministicSample(f.dist)
                  ELSE \E r \in 1..NumDraws : f.actions = StochasticSample(f.dist, r)

\* a deterministic call and, after it, a stochastic call have drawn
C11_Witness ==
    \E t \in Threads :
        /\ Returned(t)
        /\ ~frame[t].deterministic
        /\ frame[t].actions.draw = NumDraws
        /\ Has(frame[t].batch0, Batch_ACTIONS)
        /\ frame[t].batch0.f[Batch_ACTIONS].draw = 0

\* C12: the policy's model is the one model its constructor built from
\* (observation_spec, feature_spec, action_spec, config=model_config), whatever
\* sample calls were made; a call that returns has built exactly one
\* distribution, from its own features and that model, and no distribution
\* outlives its call.
C12_OneModelOneDistPerCall ==
    /\ model.id = 1
    /\ model.args = <<"observation_spec", "feature_spec", "action_spec", "model_config">>
    /\ \A t \in Threads :
        LET f == frame[t] IN
        /\ Returned(t)
            => /\ distCount = f.dist0 + 1
               /\ Len(SelectSeq(f.ops, IsDistConstruction)) = 1
               /\ f.dist = NewDist(f.dist0 + 1, ModelForward(f.in_batch))
               /\ f.distModel = model.id
        /\ f.pc = "idle" => f.dist = NoDist

\* a second call has returned on the model that served the first
C12_Witness ==
    \E t \in Threads :
        /\ Returned(t)
        /\ frame[t].fwd0 >= 1
        /\ frame[t].dist0 >= 1
        /\ frame[t].dist.id = 2

\* the collaborator operations a call has made when `op` is the one that fails
OpsUpTo(op) ==
    CASE op = "apply_view_requirements" -> << "apply_view_requirements" >>
      [] op = "forward" -> << "apply_view_requirements", "forward" >>
      [] op = "dist" -> << "apply_view_requirements", "forward", "dist" >>

\* C13: when apply_view_requirements, the forward pass or the distribution
\* construction fails, the call ends with that error at the caller: the failed
\* operation was called once, no later collaborator operation was called, no
\* container was created or returned, and the caller's batch is as it was.
C13_EarlyFailurePropagates ==
    \A t \in Threads :
        LET f == frame[t] IN
        f.failed \in {"apply_view_requirements", "forward", "dist"}
            => /\ f.pc = "raised"
               /\ f.ops = OpsUpTo(f.failed)
               /\ heap[NewContainer] = NoTD
               /\ Input(t) = f.batch0

\* an in-place call has failed in the distribution construction on a batch
\* that an earlier in-place call had written to
C13_Witness ==
    \E t \in Threads :
        /\ Raised(t)
        /\ frame[t].failed = "dist"
        /\ frame[t].inplace
        /\ Has(frame[t].batch0, Batch_FEATURES)

\* the action of a deterministic call on `batch` with `kind`, as a function of
\* these two alone
DeterministicActionOf(batch, kind) ==
    DeterministicSample(NewDist(0, ModelForward(ApplyViewRequirements(batch, kind, CallerDevice))))

GradSensitiveOps ==
    {"forward", "dist", "deterministic_sample", "sample", "logp", "value_function"}

\* in this step the call of thread t makes collaborator operation op
Executes(t, op) ==
    /\ Len(frame'[t].ops) = Len(frame[t].ops) + 1
    /\ frame'[t].ops[Len(frame'[t].ops)] = op

\* C22: within every sample call, the forward pass, the construction of the
\* distribution, the draw of the action, the logp computation and the
\* value_function read all run while the ambient gradient-tracking mode
\* equals requires_grad, whatever the mode was before the call
C22_GradModeDuringCollaborators ==
    [][\A t \in Threads : \A op \in GradSensitiveOps :
          Executes(t, op) => gradEnabled = frame[t].requires_grad]_vars

\* a call that began under the other mode has made all five operations
C22_Witness ==
    \E t \in Threads :
        /\ Returned(t)
        /\ frame[t].mode0 # frame[t].requires_grad
        /\ \E d \in {"deterministic_sample", "sample"} :
              frame[t].ops = <<"apply_view_requirements", "forward", "dist", d,
                               "logp", "value_function">>

IsView(op) == op = "apply_view_requirements"
\* the apply_view_requirements calls the call of frame f has made
ViewCalls(f) == Len(SelectSeq(f.ops, IsView))

\* what apply_view_requirements returns for the batch and the kind the
\* caller gave sample
PreprocessedOf(f) ==
    {ApplyViewRequirements(f.batch0, f.kind, dev) : dev \in Devices}

C24_ModeKeptWhenPreprocessRaises ==
    \A t \in Threads :
        (Raised(t) /\ frame[t].failed = "apply_view_requirements") =>
            gradEnabled = frame[t].mode0

\* apply_view_requirements raised in a call whose requires_grad differs
\* from the mode the caller was under
C24_Witness ==
    \E t \in Threads :
        /\ Raised(t)
        /\ frame[t].failed = "apply_view_requirements"
        /\ frame[t].requires_grad # frame[t].mode0

\* every field of td has td's batch size as its leading dimension: the
\* observations are the rows td0 came with, and every field stored since
\* has one row per row of td
ConsistentLeading(td, td0) ==
    /\ td.bsz = td0.bsz
    /\ td.f[Batch_OBS] = td0.f[Batch_OBS]
    /\ \A key \in KeysOf(td) \ {Batch_OBS} : td.f[key].lead = td.bsz

ConcurrentCall(t) ==
    /\ Call(t)
    /\ frame'[t].kind = "last"
    /\ frame'[t].deterministic
    /\ ~frame'[t].inplace
    /\ ~frame'[t].return_logp
    /\ ~frame'[t].return_values

\* each thread makes one call and keeps what it returned
ConcurrentStep(t) ==
    \/ ConcurrentCall(t) \/ Preprocess(t) \/ SnapshotGrad(t) \/ SetGrad(t)
    \/ Forward(t) \/ MakeDist(t) \/ Draw(t) \/ SelectOut(t)
    \/ StoreFeatures(t) \/ StoreActions(t) \/ StoreLogp(t) \/ StoreValues(t)
    \/ RestoreGrad(t) \/ Return(t)

\* no synchronization: whichever thread is scheduled runs its next line
ConcurrentNext == \E t \in Threads : ConcurrentStep(t)

SpecConcurrent == Init /\ [][ConcurrentNext]_vars

\* both threads have called sample and both calls returned normally
BothReturned == \A t \in Threads : Returned(t)

\* neither call began while the other was under way
Serialized == \A t \in Threads : ~frame[t].overlap

\* the mode before either call started: the one the first call found
ModeBeforeCalls == frame[CHOOSE t \in Threads : frame[t].seq = 1].mode0

\* C25: two sample calls that share one process-wide gradient-tracking
\* mode and run one after the other both return with the mode as it was
\* before either started; (the witness) when they interleave, both can
\* return normally with the mode changed
C25_SerializedCallsKeepMode ==
    (BothReturned /\ Serialized) => gradEnabled = ModeBeforeCalls

\* two interleaved calls with different requires_grad values have both
\* returned normally and the mode differs from the one before them
C25_Witness ==
    /\ BothReturned
    /\ ~Serialized
    /\ frame["t1"].requires_grad # frame["t2"].requires_grad
    /\ gradEnabled # ModeBeforeCalls

(* ---------------------------- finagg.sec.api -------------------------- *)

\* the number of calls of the SEC API a behaviour makes
MaxSecCalls == 2

\* Policy.sample at rest while another part of the repository runs
PolicyQuiet ==
    /\ gradEnabled = TRUE
    /\ heap = [id \in Ids |-> IF id = CallerBatch THEN BatchOf(<<2, 1>>, CallerDevice) ELSE NoTD]
    /\ model = PolicyModel
    /\ distCount = 0
    /\ calls = 0
    /\ frame = [t \in Threads |-> IdleFrame]

\* the width of a normalized CIK: zfill(10)
CikWidth == 10

\* str.zfill for a string of digits
RECURSIVE ZFill(_, _)
ZFill(chars, width) ==
    IF Len(chars) >= width THEN chars ELSE ZFill(<<"0">> \o chars, width)

\* str.upper over the letters the tickers here are made of
UpperChar(c) == CASE c = "a" -> "A" [] c = "b" -> "B" [] OTHER -> c
Upper(chars) == [i \in 1..Len(chars) |-> UpperChar(chars[i])]

\* d[k] = v
Put(d, k, v) == [x \in (DOMAIN d) \cup {k} |-> IF x = k THEN v ELSE d[x]]

\* the arguments callers pass
ApiCikArgs == {PyNone, Str(<<>>), Str(<<"7">>)}
ApiTickerArgs == {PyNone, Str(<<>>), Str(<<"a">>)}
ApiUserAgentArgs == {PyNone, Str(<<"u">>)}
CikArgs == {Str(<<>>), Str(<<"7">>), Str(<<"4", "2">>), Str(ZFill(<<"7">>, CikWidth))}
TickerArgs == {Str(<<>>), Str(<<"a">>), Str(<<"A">>), Str(<<"B">>)}
UserAgentArgs == {PyNone, Str(<<>>), Str(<<"u">>)}
\* SEC_API_USER_AGENT: unset, empty or set
EnvUserAgents == {PyNone, Str(<<>>), Str(<<"e">>)}

\* what company_tickers.json holds: no company, two companies, and one
\* company listed under two tickers
Listings ==
    { <<>>,
      <<[cik_str |-> <<"7">>, ticker |-> <<"A">>], [cik_str |-> <<"4", "2">>, ticker |-> <<"B">>]>>,
      <<[cik_str |-> <<"7">>, ticker |-> <<"A">>], [cik_str |-> <<"7">>, ticker |-> <<"B">>]>> }

TickersUrl == [api |-> "Tickers", cik |-> <<>>]
ApiUrl(api, cik) == [api |-> api, cik |-> cik]
Urls == {TickersUrl, ApiUrl("CompanyFacts", ZFill(<<"7">>, CikWidth))}
NoUrl == [api |-> "none", cik |-> <<>>]

Response(url) == [kind |-> "response", s |-> <<>>, url |-> url]

\* the environment value is preferred to the argument
UserAgentEnvFirst(user_agent, env) == IF Truthy(env) THEN env ELSE user_agent

\* user_agent or os.environ.get("SEC_API_USER_AGENT", None)
UserAgentOf(user_agent, env) == IF Truthy(user_agent) THEN user_agent ELSE env

\* get(url, user_agent=...); ok is the status the server answers with
Get(url, user_agent, env, ok) ==
    LET agent == UserAgentOf(user_agent, env) IN
    IF ~Truthy(agent)
    THEN [err |-> "RuntimeError", val |-> PyNone, reqs |-> <<>>]
    ELSE [err |-> IF ok THEN "none" ELSE "HTTPError",
          val |-> IF ok THEN Response(url) ELSE PyNone,
          reqs |-> <<[url |-> url, agent |-> agent, ok |-> ok]>>]

\* the caches are left as they are
FillNothing(cache, items) == cache

\* the loop that fills both caches from the listing, a later item
\* overwriting an earlier one under the same key
RECURSIVE Fill(_, _)
Fill(cache, items) ==
    IF items = <<>> THEN cache
    ELSE LET item == Head(items)
             normalized_cik == ZFill(item.cik_str, CikWidth)
         IN  Fill([t2c |-> Put(cache.t2c, item.ticker, Str(normalized_cik)),
                   c2t |-> Put(cache.c2t, normalized_cik, Str(item.ticker))],
                  Tail(items))

\* a lookup in a cache, after the fetch that may precede it
Lookup(fetched, fetch, cache, filled, d, key) ==
    IF fetched /\ fetch.err # "none"
    THEN [err |-> fetch.err, val |-> PyNone, cache |-> cache, reqs |-> fetch.reqs]
    ELSE IF key \notin DOMAIN d
    THEN [err |-> "KeyError", val |-> PyNone, cache |-> filled,
          reqs |-> IF fetched THEN fetch.reqs ELSE <<>>]
    ELSE [err |-> "none", val |-> d[key], cache |-> filled,
          reqs |-> IF fetched THEN fetch.reqs ELSE <<>>]

\* get_cik(ticker, user_agent=...)
GetCik(cache, ticker, user_agent, env, listing, ok) ==
    LET fetched == DOMAIN cache.t2c = {}
        fetch == Get(TickersUrl, user_agent, env, ok)
        filled == IF fetched /\ fetch.err = "none" THEN Fill(cache, listing) ELSE cache
    IN  Lookup(fetched, fetch, cache, filled, filled.t2c, Upper(ticker.s))

\* get_ticker(cik, user_agent=...)
GetTicker(cache, cik, user_agent, env, listing, ok) ==
    LET fetched == DOMAIN cache.c2t = {}
        fetch == Get(TickersUrl, user_agent, env, ok)
        filled == IF fetched /\ fetch.err = "none" THEN Fill(cache, listing) ELSE cache
    IN  Lookup(fetched, fetch, cache, filled, filled.c2t, ZFill(cik.s, CikWidth))

\* only None counts as not supplied
ArgsInvalidByNone(cik, ticker) == (cik = PyNone) = (ticker = PyNone)

\* bool(cik) == bool(ticker)
ArgsInvalid(cik, ticker) == Truthy(cik) = Truthy(ticker)

\* CompanyConcept.get, CompanyFacts.get and Submissions.get up to the response:
\* the check of the arguments, the lookups (made without the caller's user
\* agent), the normalization of the CIK and the request
ApiGet(api, cache, cik, ticker, user_agent, env, listing, ok1, ok2) ==
    IF ArgsInvalid(cik, ticker)
    THEN [err |-> "ValueError", val |-> PyNone, cache |-> cache, reqs |-> <<>>,
          trace |-> <<>>, url |-> NoUrl]
    ELSE
    LET byTicker == Truthy(ticker)
        a == IF byTicker THEN GetCik(cache, ticker, PyNone, env, listing, ok1)
             ELSE [err |-> "none", val |-> cik, cache |-> cache, reqs |-> <<>>]
        ta == IF byTicker THEN <<"get_cik">> ELSE <<>>
    IN
    IF a.err # "none"
    THEN [err |-> a.err, val |-> PyNone, cache |-> a.cache, reqs |-> a.reqs,
          trace |-> ta, url |-> NoUrl]
    ELSE
    LET byCik == api = "Submissions" /\ Truthy(a.val)
        b == IF byCik THEN GetTicker(a.cache, a.val, PyNone, env, listing, ok1)
             ELSE [err |-> "none", val |-> ticker, cache |-> a.cache, reqs |-> <<>>]
        tb == IF byCik THEN ta \o <<"get_ticker">> ELSE ta
    IN
    IF b.err # "none"
    THEN [err |-> b.err, val |-> PyNone, cache |-> b.cache, reqs |-> a.reqs \o b.reqs,
          trace |-> tb, url |-> NoUrl]
    ELSE
    LET url == ApiUrl(api, ZFill(a.val.s, CikWidth))
        g == Get(url, user_agent, env, ok2)
    IN  [err |-> g.err, val |-> g.val, cache |-> b.cache,
         reqs |-> a.reqs \o b.reqs \o g.reqs,
         trace |-> tb \o <<"get">>, url |-> url]

\* a call and its outcome become the state
\* a request that was answered with the ticker listing
IsListingResponse(req) == req.url = TickersUrl /\ req.ok

\* the listings that get_cik and get_ticker, called directly or by an API
\* method, received among the requests of one call
ListingFetches(op, reqs) ==
    IF op = "get" THEN 0 ELSE Len(SelectSeq(reqs, IsListingResponse))

SecCall(op, cik, ticker, user_agent, r) ==
    /\ secCalls' = secCalls + 1
    /\ secCache' = r.cache
    /\ secSent' = secSent + Len(r.reqs)
    /\ secLast' = [op |-> op, cik |-> cik, ticker |-> ticker, user_agent |-> user_agent,
                   err |-> r.err, val |-> r.val, reqs |-> r.reqs, trace |-> r.trace,
                   url |-> r.url, cache0 |-> secCache, sent0 |-> secSent,
                   fetches |-> secLast.fetches + ListingFetches(op, r.reqs)]
    /\ UNCHANGED <<secEnv, secListing>>
    /\ UNCHANGED outsideSec

ApiCall(api) ==
    \E cik \in ApiCikArgs, ticker \in ApiTickerArgs, user_agent \in ApiUserAgentArgs,
       ok1 \in BOOLEAN, ok2 \in BOOLEAN :
        SecCall(api, cik, ticker, user_agent,
                ApiGet(api, secCache, cik, ticker, user_agent, secEnv, secListing, ok1, ok2))

CompanyConceptGet ==
    /\ secCalls < MaxSecCalls
    /\ ApiCall("CompanyConcept")

CompanyFactsGet ==
    /\ secCalls < MaxSecCalls
    /\ ApiCall("CompanyFacts")

SubmissionsGet ==
    /\ secCalls < MaxSecCalls
    /\ ApiCall("Submissions")

GetCall ==
    /\ secCalls < MaxSecCalls
    /\ \E url \in Urls, user_agent \in UserAgentArgs, ok \in BOOLEAN :
        LET g == Get(url, user_agent, secEnv, ok)
        IN  SecCall("get", PyNone, PyNone, user_agent,
                    [err |-> g.err, val |-> g.val, cache |-> secCache, reqs |-> g.reqs,
                     trace |-> <<>>, url |-> url])

GetCikCall ==
    /\ secCalls < MaxSecCalls
    /\ \E ticker \in TickerArgs, user_agent \in UserAgentArgs, ok \in BOOLEAN :
        LET r == GetCik(secCache, ticker, user_agent, secEnv, secListing, ok)
        IN  SecCall("get_cik", PyNone, ticker, user_agent,
                    [err |-> r.err, val |-> r.val, cache |-> r.cache, reqs |-> r.reqs,
                     trace |-> <<>>, url |-> NoUrl])

GetTickerCall ==
    /\ secCalls < MaxSecCalls
    /\ \E cik \in CikArgs, user_agent \in UserAgentArgs, ok \in BOOLEAN :
        LET r == GetTicker(secCache, cik, user_agent, secEnv, secListing, ok)
        IN  SecCall("get_ticker", cik, PyNone, user_agent,
                    [err |-> r.err, val |-> r.val, cache |-> r.cache, reqs |-> r.reqs,
                     trace |-> <<>>, url |-> NoUrl])

SecInit ==
    /\ secCache = EmptyCache
    /\ secEnv \in EnvUserAgents
    /\ secListing \in Listings
    /\ secSent = 0
    /\ secCalls = 0
    /\ secLast = NoSecCall
    /\ PolicyQuiet
    /\ YfQuiet
    /\ StQuiet
    /\ TsQuiet
    /\ MxQuiet

SecNext ==
    \/ CompanyConceptGet \/ CompanyFactsGet \/ SubmissionsGet
    \/ GetCall \/ GetCikCall \/ GetTickerCall

SpecSec == SecInit /\ [][SecNext]_vars

\* supplied: neither None nor the empty string
Supplied(x) == x # PyNone /\ x # Str(<<>>)
IsApiCall(l) == l.op \in {"CompanyConcept", "CompanyFacts", "Submissions"}

\* C15: CompanyConcept.get, CompanyFacts.get and Submissions.get raise
\* ValueError when both cik and ticker are supplied and when neither is (None
\* and the empty string count as not supplied), before any ticker lookup or
\* HTTP request and with the lookup caches unchanged
C15_InvalidArgsRaiseFirst ==
    (IsApiCall(secLast) /\ (Supplied(secLast.cik) <=> Supplied(secLast.ticker)))
        => /\ secLast.err = "ValueError"
           /\ secLast.trace = <<>>
           /\ secLast.reqs = <<>>
           /\ secSent = secLast.sent0
           /\ secCache = secLast.cache0

\* an empty cik with no ticker is refused after an earlier call filled the caches
C15_Witness ==
    /\ IsApiCall(secLast)
    /\ secLast.cik = Str(<<>>)
    /\ secLast.ticker = PyNone
    /\ secLast.err = "ValueError"
    /\ DOMAIN secCache.t2c # {}

BothEmpty(cache) == DOMAIN cache.t2c = {} /\ DOMAIN cache.c2t = {}
BothPopulated(cache) == DOMAIN cache.t2c # {} /\ DOMAIN cache.c2t # {}

\* the call was a lookup, made directly
IsLookup(call) == call.op \in {"get_cik", "get_ticker"}

\* C28: over any sequence of get_cik and get_ticker calls the ticker
\* listing is fetched at most once when the listing is not empty, both
\* lookup maps are filled from that one listing in the same step (between
\* calls both are empty or both are populated), and a lookup of an unknown
\* key in populated maps raises without a request and leaves the maps alone
C28_ListingFetchedOnceMapsTogether ==
    /\ BothEmpty(secCache) \/ BothPopulated(secCache)
    /\ secCache \in {EmptyCache, Fill(EmptyCache, secListing)}
    /\ secListing # <<>> => secLast.fetches <= 1
    /\ BothPopulated(secLast.cache0) =>
          /\ secCache = secLast.cache0
          /\ ListingFetches(secLast.op, secLast.reqs) = 0
    /\ (IsLookup(secLast) /\ secLast.err = "KeyError"
            /\ BothPopulated(secLast.cache0)) =>
          /\ secLast.reqs = <<>>
          /\ secCache = secLast.cache0

\* after a lookup that fetched a listing of two companies, a second lookup
\* asked for a key the maps do not hold
C28_Witness ==
    /\ secCalls = 2
    /\ IsLookup(secLast)
    /\ secLast.fetches = 1
    /\ BothPopulated(secLast.cache0)
    /\ secLast.err = "KeyError"
    /\ Len(secListing) = 2

\* the tickers and the CIKs of the listing
ListedTickers == {secListing[i].ticker : i \in 1..Len(secListing)}
ListedCiks == {secListing[i].cik_str : i \in 1..Len(secListing)}

\* get_cik(get_ticker(cik)) and get_ticker(get_cik(ticker)) on the maps as
\* they are now
CikOfTickerOf(cik) ==
    GetCik(secCache, GetTicker(secCache, cik, PyNone, secEnv, secListing, TRUE).val,
           PyNone, secEnv, secListing, TRUE)
TickerOfCikOf(ticker) ==
    GetTicker(secCache, GetCik(secCache, ticker, PyNone, secEnv, secListing, TRUE).val,
              PyNone, secEnv, secListing, TRUE)

\* C29: once the listing is fetched, get_cik and get_ticker are inverse to
\* each other over it: get_cik(get_ticker(c)) is c padded to ten digits for
\* every listed CIK c, and get_ticker(get_cik(t)) is t in upper case for
\* every listed ticker t in any letter case, also when tickers share a CIK
C29_LookupsAreInverse ==
    BothPopulated(secCache) =>
        /\ \A c \in ListedCiks :
              LET r == CikOfTickerOf(Str(c)) IN
              r.err = "none" /\ r.val = Str(ZFill(c, CikWidth))
        /\ \A t \in TickerArgs :
              Upper(t.s) \in ListedTickers =>
                 LET r == TickerOfCikOf(t) IN
                 r.err = "none" /\ r.val = Str(Upper(t.s))

(* ------------------------- shark.yfinance.scrape ---------------------- *)

\* the number of runs a behaviour makes and the most rows one fetch returns
MaxRuns == 2
MaxRows == 2

\* the tickers argument: one string, or a sequence of strings
TickerList(items) == [kind |-> "list", items |-> items]
RunArgs ==
    { Str(<<"A">>), TickerList(<<>>), TickerList(<<Str(<<"A">>)>>),
      TickerList(<<Str(<<"A">>), Str(<<"B">>)>>),
      TickerList(<<Str(<<"A">>), Str(<<"A">>)>>) }
\* the longest list among them
MaxTickers == 2

\* a row of the prices table; asof tells the run whose fetch produced it
\* (0: it was in the store before any run)
PriceRow(ticker, date, asof) == [ticker |-> ticker, date |-> date, asof |-> asof]
\* what the store may hold before the first run
StoresBefore == {<<>>, <<PriceRow(Str(<<"A">>), 1, 0)>>}

\* api.get(ticker, interval="1d", period="max"): n daily rows of the ticker,
\* or an error
Fetches == (0..MaxRows) \cup {-1}
Frame(ticker, n, asof) == [date \in 1..n |-> PriceRow(ticker, date, asof)]

\* the tables are kept as they were
TablesKept(table) == table

\* sql.metadata.drop_all(engine); sql.metadata.create_all(engine)
TablesDroppedAndCreated(table) == <<>>

\* if isinstance(tickers, str): tickers = [tickers]
AsList(tickers) == IF tickers.kind = "str" THEN <<tickers>> ELSE tickers.items

\* the primary key (ticker, date) of a row
PriceKey(row) == <<row.ticker, row.date>>
\* an insert of rows the key refuses
KeyConflict(table, rows) ==
    \/ \E i \in 1..Len(rows), j \in 1..Len(table) : PriceKey(rows[i]) = PriceKey(table[j])
    \/ \E i, j \in 1..Len(rows) : i # j /\ PriceKey(rows[i]) = PriceKey(rows[j])

\* the loop over the tickers from the i-th on: fetch, count, insert
RECURSIVE ScrapeLoop(_, _, _, _, _, _)
ScrapeLoop(st, tickers, i, fetch, keyed, asof) ==
    IF i > Len(tickers) THEN [st EXCEPT !.outcome = "returned"]
    ELSE IF fetch[i] = -1 THEN [st EXCEPT !.outcome = "ApiError"]
    ELSE
    LET ticker == tickers[i]
        df == Frame(ticker, fetch[i], asof)
        counted == [st EXCEPT !.result = Put(st.result, ticker, Len(df)),
                              !.fetched = Append(st.fetched, df)]
    IN  IF keyed /\ KeyConflict(st.table, df)
        THEN [counted EXCEPT !.outcome = "IntegrityError"]
        ELSE ScrapeLoop([counted EXCEPT !.table = st.table \o df,
                                        !.inserted = st.inserted + Len(df)],
                        tickers, i + 1, fetch, keyed, asof)

\* run(tickers, engine=...)
Run ==
    /\ yfRuns < MaxRuns
    /\ \E tickers \in RunArgs, fetch \in [1..MaxTickers -> Fetches] :
          LET st == ScrapeLoop([table |-> TablesDroppedAndCreated(yfPrices),
                                result |-> EmptyDict, fetched |-> <<>>,
                                inserted |-> 0, outcome |-> "running"],
                               AsList(tickers), 1, fetch, yfKeyed, yfRuns + 1)
          IN  /\ yfPrices' = st.table
              /\ yfLast' = [tickers |-> tickers, outcome |-> st.outcome,
                            result |-> st.result, fetched |-> st.fetched,
                            inserted |-> st.inserted, prices0 |-> yfPrices]
    /\ yfRuns' = yfRuns + 1
    /\ UNCHANGED yfKeyed
    /\ UNCHANGED outsideYf

YfInit ==
    /\ yfPrices \in StoresBefore
    /\ yfKeyed \in BOOLEAN
    /\ yfRuns = 0
    /\ yfLast = NoYfRun
    /\ PolicyQuiet
    /\ SecQuiet
    /\ StQuiet
    /\ TsQuiet
    /\ MxQuiet

YfNext == Run

SpecYf == YfInit /\ [][YfNext]_vars

RECURSIVE Flatten(_)
Flatten(frames) == IF frames = <<>> THEN <<>> ELSE Head(frames) \o Flatten(Tail(frames))

RECURSIVE SumOver(_, _)
SumOver(d, keys) ==
    IF keys = {} THEN 0
    ELSE LET k == CHOOSE x \in keys : TRUE IN d[k] + SumOver(d, keys \ {k})

RowsFetchedFor(ticker) ==
    LET frames == yfLast.fetched
        Count[i \in 0..Len(frames)] ==
            IF i = 0 THEN 0
            ELSE Count[i - 1] + Cardinality({j \in 1..Len(frames[i]) : frames[i][j].ticker = ticker})
    IN  Count[Len(frames)]

\* C18: the mapping yfinance scrape.run returns has one entry per requested
\* ticker, its value the number of rows fetched for that ticker (a single
\* string is a one-element list), and the values sum to the number of rows
\* the run inserted, also when a ticker is requested more than once (every
\* run whose fetches succeed is concerned)
C18_CountsMatchInserts ==
    yfLast.outcome \in {"returned", "IntegrityError"}
        => LET requested == IF yfLast.tickers.kind = "str" THEN <<yfLast.tickers>>
                            ELSE yfLast.tickers.items
           IN  /\ yfLast.outcome = "returned"
               /\ DOMAIN yfLast.result = {requested[i] : i \in 1..Len(requested)}
               /\ \A t \in DOMAIN yfLast.result : yfLast.result[t] = RowsFetchedFor(t)
               /\ SumOver(yfLast.result, DOMAIN yfLast.result) = yfLast.inserted
               /\ yfLast.inserted = Len(yfPrices)

(* ----------------------------- feature stores ------------------------- *)

\* the number of calls a behaviour makes on its store
MaxStoreOps == 3

\* the mixed fundamental_features table and the two refined SEC tables
RefinedStores == {"annual", "quarterly"}
Stores == RefinedStores \cup {"fundamental"}
StoreTickers == {"AAPL", "MSFT"}

\* a row of a feature frame: its date index and its feature column
FeatureRow(date, value) == [date |-> date, value |-> value]
\* frames of one and two dates, and one that repeats a date
Frames ==
    { <<FeatureRow(1, 10)>>, <<FeatureRow(2, 30)>>,
      <<FeatureRow(1, 10), FeatureRow(2, 20)>>,
      <<FeatureRow(1, 10), FeatureRow(1, 11)>> }
\* start and end of the observation period; 0 is None
Starts == {0, 2}
Ends == {0, 1}

\* df.reset_index(names="date"); df["ticker"] = ticker; df.to_dict(orient="records")
Records(ticker, df) ==
    [i \in 1..Len(df) |-> [ticker |-> ticker, date |-> df[i].date, value |-> df[i].value]]

\* the table takes every row
InsertConflictNever(table, rows) == FALSE

\* the primary key (ticker, date) refuses the rows
InsertConflict(table, rows) ==
    \/ \E i \in 1..Len(rows), j \in 1..Len(table) :
          rows[i].ticker = table[j].ticker /\ rows[i].date = table[j].date
    \/ \E i, j \in 1..Len(rows) :
          i # j /\ rows[i].ticker = rows[j].ticker /\ rows[i].date = rows[j].date

\* with engine.begin() as conn: conn.execute(table.insert(), records):
\* committed as a whole, or rolled back as a whole when the insert raises
InsertInTransaction(table, rows) ==
    IF InsertConflict(table, rows)
    THEN [err |-> "IntegrityError", table |-> table]
    ELSE [err |-> "none", table |-> table \o rows]

\* to_store(ticker, df)
ToStore(table, ticker, df) ==
    LET r == InsertInTransaction(table, Records(ticker, df))
    IN  [err |-> r.err, table |-> r.table,
         count |-> IF r.err = "none" THEN Len(df) ELSE 0, frame |-> <<>>]

\* table.select().where(stmt), the rows in the order they were stored
SelectWhere(table, ticker, start, end) ==
    LET stmt(row) ==
            /\ row.ticker = ticker
            /\ (start # 0 => row.date >= start)
            /\ (end # 0 => row.date <= end)
    IN  SelectSeq(table, stmt)

\* from_store(ticker, start=..., end=...): a frame built from no row has no
\* date column, and set_index("date") raises KeyError
FromStore(table, ticker, start, end) ==
    LET rows == SelectWhere(table, ticker, start, end)
    IN  IF rows = <<>>
        THEN [err |-> "KeyError", table |-> table, count |-> 0, frame |-> <<>>]
        ELSE [err |-> "none", table |-> table, count |-> 0,
              frame |-> [i \in 1..Len(rows) |-> FeatureRow(rows[i].date, rows[i].value)]]

\* finagg.sec.feat: to_refined(ticker, df) and from_refined(ticker)
ToRefined(table, ticker, df) == ToStore(table, ticker, df)
FromRefined(table, ticker) == FromStore(table, ticker, 0, 0)

HasRowsOf(table, ticker) == \E i \in 1..Len(table) : table[i].ticker = ticker

\* a call and its outcome become the state
StoreCall(op, ticker, df, start, end, r) ==
    /\ stOps' = stOps + 1
    /\ stRows' = r.table
    /\ stLast' = [op |-> op, ticker |-> ticker, df |-> df, start |-> start, end |-> end,
                  err |-> r.err, count |-> r.count, frame |-> r.frame,
                  rows0 |-> stRows, fresh |-> ~HasRowsOf(stRows, ticker),
                  prev |-> [op |-> stLast.op, ticker |-> stLast.ticker, df |-> stLast.df,
                            err |-> stLast.err, fresh |-> stLast.fresh]]
    /\ UNCHANGED stStore
    /\ UNCHANGED outsideSt

ToStoreCall ==
    /\ stOps < MaxStoreOps
    /\ stStore = "fundamental"
    /\ \E ticker \in StoreTickers, df \in Frames :
          StoreCall("to_store", ticker, df, 0, 0, ToStore(stRows, ticker, df))

FromStoreCall ==
    /\ stOps < MaxStoreOps
    /\ stStore = "fundamental"
    /\ \E ticker \in StoreTickers, start \in Starts, end \in Ends :
          StoreCall("from_store", ticker, <<>>, start, end,
                    FromStore(stRows, ticker, start, end))

ToRefinedCall ==
    /\ stOps < MaxStoreOps
    /\ stStore \in RefinedStores
    /\ \E ticker \in StoreTickers, df \in Frames :
          StoreCall("to_refined", ticker, df, 0, 0, ToRefined(stRows, ticker, df))

FromRefinedCall ==
    /\ stOps < MaxStoreOps
    /\ stStore \in RefinedStores
    /\ \E ticker \in StoreTickers :
          StoreCall("from_refined", ticker, <<>>, 0, 0, FromRefined(stRows, ticker))

StInit ==
    /\ stStore \in Stores
    /\ stRows = <<>>
    /\ stOps = 0
    /\ stLast = NoStoreCall
    /\ PolicyQuiet
    /\ SecQuiet
    /\ YfQuiet
    /\ TsQuiet
    /\ MxQuiet

StNext == ToStoreCall \/ FromStoreCall \/ ToRefinedCall \/ FromRefinedCall

SpecSt == StInit /\ [][StNext]_vars

\* the call before the last wrote df for the same ticker into a store that
\* held no row of it
AfterFirstWrite(op) ==
    /\ stLast.prev.op = op
    /\ stLast.prev.ticker = stLast.ticker
    /\ stLast.prev.err = "none"
    /\ stLast.prev.fresh

RowsOfTicker(table, ticker) ==
    {FeatureRow(table[i].date, table[i].value) : i \in {j \in 1..Len(table) : table[j].ticker = ticker}}

\* C20: fundamental_features.to_store inserts every row of df under the
\* ticker in one transaction and returns their number; a failed insert
\* propagates and leaves no row of the call; a following from_store(ticker)
\* without date bounds returns exactly the rows written for the ticker and
\* none of another ticker
C20_ToStoreAtomicFromStoreExact ==
    /\ stLast.op = "to_store"
          => /\ stLast.err \in {"none", "IntegrityError"}
             /\ (stLast.err = "none")
                   => /\ stRows = stLast.rows0 \o Records(stLast.ticker, stLast.df)
                      /\ stLast.count = Len(stLast.df)
             /\ (stLast.err # "none") => stRows = stLast.rows0
    /\ (stLast.op = "from_store" /\ stLast.start = 0 /\ stLast.end = 0
           /\ stLast.prev.op = "to_store" /\ stLast.prev.ticker = stLast.ticker)
          => /\ stLast.err = "none"
             /\ {stLast.frame[i] : i \in 1..Len(stLast.frame)} = RowsOfTicker(stRows, stLast.ticker)

(* ------------------------- finagg.yfinance.store ----------------------- *)

\* steps (writes and queries) made in one behaviour
MaxTsOps == 3

TsTickers == {"AAPL", "MSFT"}
TsDates == {1, 2}
\* the arguments get_tickers_with_at_least is called with
LowerBounds == {1, 2}

\* a row of daily_features: its ticker, date, name and value columns
DailyFeaturesRow(ticker, date) == <<ticker, date, "price", 0>>
DailyFeaturesRows == {DailyFeaturesRow(t, d) : t \in TsTickers, d \in TsDates}

\* the primary key of a row: ticker, date and name
DailyFeaturesKey(row) == <<row[1], row[2], row[3]>>

\* the tickers that have a row in the table
TickersIn(table) == {row[1] : row \in table}

\* daily_features.select().distinct(daily_features.c.ticker): a select of
\* the table selects all four of its columns
SelectDistinct(table) == table

\* ... .group_by(ticker).having(func.count(date) >= lower_bound): one row of
\* four columns for each ticker that has at least lower_bound rows
SelectHaving(table, lower_bound) ==
    {CHOOSE row \in table : row[1] = t :
        t \in {u \in TickersIn(table) :
                 Cardinality({row \in table : row[1] = u}) >= lower_bound}}

\* (ticker,) = ticker: unpacking a row into a tuple of one name
UnpackOne(row) ==
    IF Len(row) = 1
    THEN [err |-> "", val |-> row[1]]
    ELSE [err |-> "ValueError", val |-> ""]

\* the loop over the rows of a query: unpack each row and add its ticker
CollectTickers(rows) ==
    IF \E row \in rows : UnpackOne(row).err # ""
    THEN [err |-> "ValueError", val |-> {}]
    ELSE [err |-> "", val |-> {UnpackOne(row).val : row \in rows}]

\* functools.cache around a function: a call with remembered arguments
\* returns what the first such call returned, without running the body; a
\* call that raises is not remembered
Cached(memo, fn, arg, body) ==
    IF \E m \in memo : m.fn = fn /\ m.arg = arg
    THEN [err |-> "", val |-> (CHOOSE m \in memo : m.fn = fn /\ m.arg = arg).val,
          memo |-> memo, hit |-> TRUE]
    ELSE IF body.err # ""
    THEN [err |-> body.err, val |-> body.val, memo |-> memo, hit |-> FALSE]
    ELSE [err |-> "", val |-> body.val,
          memo |-> memo \cup {[fn |-> fn, arg |-> arg, val |-> body.val]},
          hit |-> FALSE]

GetTickerSet(memo, table) ==
    Cached(memo, "get_ticker_set", 0, CollectTickers(SelectDistinct(table)))

GetTickersWithAtLeast(memo, table, lower_bound) ==
    Cached(memo, "get_tickers_with_at_least", lower_bound,
           CollectTickers(SelectHaving(table, lower_bound)))

\* one query: its outcome is recorded, the table is only read
TsCall(op, arg, r) ==
    /\ tsOps' = tsOps + 1
    /\ tsMemo' = r.memo
    /\ tsLast' = [op |-> op, arg |-> arg, err |-> r.err, val |-> r.val,
                  hit |-> r.hit]
    /\ UNCHANGED tsTable
    /\ UNCHANGED outsideTs

GetTickerSetCall ==
    /\ tsOps < MaxTsOps
    /\ TsCall("get_ticker_set", 0, GetTickerSet(tsMemo, tsTable))

GetTickersWithAtLeastCall ==
    /\ tsOps < MaxTsOps
    /\ \E lower_bound \in LowerBounds :
         TsCall("get_tickers_with_at_least", lower_bound,
                GetTickersWithAtLeast(tsMemo, tsTable, lower_bound))

\* a write to the table between two queries: a row whose primary key is
\* not taken yet is inserted
InsertRow ==
    /\ tsOps < MaxTsOps
    /\ \E row \in DailyFeaturesRows :
         /\ \A old \in tsTable : DailyFeaturesKey(old) # DailyFeaturesKey(row)
         /\ tsTable' = tsTable \cup {row}
    /\ tsOps' = tsOps + 1
    /\ tsLast' = [NoTsCall EXCEPT !.op = "insert"]
    /\ UNCHANGED tsMemo
    /\ UNCHANGED outsideTs

TsInit ==
    /\ tsTable \in SUBSET DailyFeaturesRows
    /\ tsMemo = {}
    /\ tsOps = 0
    /\ tsLast = NoTsCall
    /\ PolicyQuiet
    /\ SecQuiet
    /\ YfQuiet
    /\ StQuiet
    /\ MxQuiet

TsNext ==
    \/ GetTickerSetCall
    \/ GetTickersWithAtLeastCall
    \/ InsertRow

SpecTs == TsInit /\ [][TsNext]_vars

\* C21: every get_ticker_set call returns, without raising, exactly the set
\* of the distinct tickers that are in the daily_features table at the time
\* of the call, whatever was written to the table since the calls before
C21_TickerSetIsCurrent ==
    tsLast.op = "get_ticker_set" =>
        /\ tsLast.err = ""
        /\ tsLast.val = TickersIn(tsTable)

(* --------------------- finagg.mixed.features.from_sql ------------------ *)

\* from_sql calls made in one behaviour
MaxMxOps == 2

reference_indices == <<"VOO", "VGT">>

\* sec.features.quarterly_features.from_sql(ticker, start=, end=, engine=):
\* the dates of the ticker's quarterly rows in the database of the engine,
\* from start on
QuarterlyFromSql(db, ticker, start, engine) ==
    {d \in db[engine][ticker] : start = NoDate \/ d >= start}

\* quarterly_features.index[0] of a frame sorted by date
FirstDate(dates) == CHOOSE d \in dates : \A e \in dates : d <= e

\* one read of a feature table: which table, for which ticker, from which
\* date on, through which engine
Read(table, ticker, start, engine) ==
    [table |-> table, ticker |-> ticker, start |-> start, engine |-> engine]

\* lines 124-129: the reads of the reference indices pass no engine, so
\* yfinance's from_sql uses its default
IndexEngine(yf_engine) == DefaultYfEngine

\* lines 110-130 of from_sql: the quarterly read, the first date, the
\* daily read of the ticker, the daily reads of the reference indices
FromSql(db, ticker, start, sec_engine, yf_engine) ==
    LET quarterly == QuarterlyFromSql(db, ticker, start, sec_engine)
        first == <<Read("quarterly_features", ticker, start, sec_engine)>>
    IN  IF quarterly = {}
        THEN [err |-> "IndexError", reads |-> first]
        ELSE [err |-> "",
              reads |-> first
                  \o <<Read("daily_features", ticker, FirstDate(quarterly), yf_engine)>>
                  \o [i \in 1..Len(reference_indices) |->
                        Read("daily_features", reference_indices[i],
                             FirstDate(quarterly), IndexEngine(yf_engine))]]

FromSqlCall ==
    /\ mxOps < MaxMxOps
    /\ \E ticker \in MxTickers, start \in MxDates \cup {NoDate},
          sec_engine \in SecEngines, yf_engine \in YfEngines :
          LET r == FromSql(mxQuarterly, ticker, start, sec_engine, yf_engine) IN
          mxLast' = [ticker |-> ticker, start |-> start, sec_engine |-> sec_engine,
                     yf_engine |-> yf_engine, err |-> r.err, reads |-> r.reads]
    /\ mxOps' = mxOps + 1
    /\ UNCHANGED mxQuarterly
    /\ UNCHANGED outsideMx

MxInit ==
    /\ mxQuarterly \in [SecEngines -> [MxTickers -> SUBSET MxDates]]
    /\ mxOps = 0
    /\ mxLast = NoMxCall
    /\ PolicyQuiet
    /\ SecQuiet
    /\ YfQuiet
    /\ StQuiet
    /\ TsQuiet

MxNext == FromSqlCall

SpecMx == MxInit /\ [][MxNext]_vars

\* the reads the last from_sql call made
ReadsOf(call) == {call.reads[i] : i \in 1..Len(call.reads)}

\* C27: from_sql reads the quarterly features through the sec_engine it
\* was given only, and every daily feature set, of the ticker and of each
\* reference index, through the yf_engine it was given only
C27_ReadsUseSuppliedEngines ==
    \A r \in ReadsOf(mxLast) :
        /\ r.table = "quarterly_features" => r.engine = mxLast.sec_engine
        /\ r.table = "daily_features" => r.engine = mxLast.yf_engine

=============================================================================
